---------------------------- MODULE Spec2Model ----------------------------
(***************************************************************************)
(* Model of the bandwidth-estimation test runner (mininet/testcases.py,    *)
(* mininet/main.py): one execution of                                      *)
(* VariableAvailableCapacitySingleFlow.run(), made of                      *)
(*   - the foreground thread (provisioning, the try block with the         *)
(*     pmonitor loop, the except clause and the finally block),            *)
(*   - one threading.Timer thread per entry of tc_config, running the      *)
(*     closure update() returned by update_link(),                         *)
(*   - the two child processes launched with h1.popen / h2.popen.          *)
(*                                                                         *)
(* Time.  `now' is the wall clock in seconds, counted from the instant at  *)
(* which run() reads `start = time()'.  Every instant the program compares *)
(* the clock with (the timers' due times start + start_time and the        *)
(* deadline start + seconds) is a multiple of Granularity, so the clock is *)
(* observed at that resolution: a blocking call that lasts at most         *)
(* Granularity seconds (poll with timeoutms = 1000, p.wait(3)) either      *)
(* leaves the reading unchanged or moves it to the next multiple.  A timer *)
(* thread wakes up when its interval has elapsed: the clock does not move  *)
(* past a due time while the timer is still pending.  How long a callback  *)
(* stays between reading its timestamp and appending its record is not     *)
(* bounded by the code (subprocess.run has no timeout).                    *)
(*                                                                         *)
(* Every call into mininet, the file system or the OS may raise; the       *)
(* outcome of each such call is an input drawn from Outcome.               *)
(***************************************************************************)
EXTENDS Integers, Sequences, FiniteSets, TLC

\* ------------------------------------------------------------------ data

\* start_traffic_control: tc_config (start_time in seconds, ratio in tenths)
tc_config ==
    << [start_time |-> 0,   ratio10 |-> 10],
       [start_time |-> 40,  ratio10 |-> 25],
       [start_time |-> 60,  ratio10 |-> 6],
       [start_time |-> 80,  ratio10 |-> 10],
       [start_time |-> 100, ratio10 |-> 10] >>

\* start_traffic_control: reference = 1.0, in tenths
reference10 == 10

\* run(): seconds = 100
seconds == 100

\* run(): pmonitor(popens, timeoutms=1000)
timeoutms == 1000

\* run(): p.wait(3)
grace == 3

Entries == 1..Len(tc_config)

\* main(): len(data), the number of entries of implementations.json
NumTests == 2

\* tc commands that exit with a non-zero status during one run
MaxFailures == 1

\* the hosts on which run() launches a child: h1 = l0, h2 = r0
Hosts == {"h1", "h2"}

\* result of a call that may raise
Outcome == {"ok", "raise"}

RECURSIVE GCD(_, _)
GCD(a, b) == IF b = 0 THEN a ELSE GCD(b, a % b)

RECURSIVE GCDUpTo(_)
GCDUpTo(k) ==
    IF k = 0 THEN seconds ELSE GCD(tc_config[k].start_time, GCDUpTo(k - 1))

\* resolution of the clock: all due times and the deadline are multiples
Granularity == GCDUpTo(Len(tc_config))

VARIABLES
    pc,          \* position of the foreground thread inside run()
    now,         \* wall clock, seconds since `start'
    start,       \* run(): start
    endTime,     \* run(): endTime
    ok,          \* run(): ok ("unset" until assigned)
    net,         \* the Mininet object: none / created / started / stopped
    cleaned,     \* mininet.clean.cleanup() has completed
    popensBound, \* the local name popens is bound (line 167 was executed)
    popens,      \* run(): popens, hosts in insertion order
    proc,        \* per host: none / running / quiet (alive, stdout closed) / dead
    termSent,    \* per host: p.terminate() returned
    killed,      \* per host: p.kill() returned
    tdIdx,       \* position of `for p in popens.values()'
    tcIdx,       \* position of `for c in tc_config'
    cancelIdx,   \* position of `for timer in self.timers'
    timers,      \* per entry: unarmed / pending / running / done / cancelled
    tcap,        \* per entry: update(): t
    log,         \* capacity.log, the records appended by this run
    failedAt,    \* the first call of run() that raised ("none" if none)
    escaped,     \* what propagated out of run() ("none" if nothing)
    loopExit,    \* how the pmonitor loop ended
    stopping,    \* the finally block has been entered
    trace,       \* teardown steps attempted so far, in order
    shaped,      \* per interface: the tc commands run on it, in order
    prog,        \* per entry: interfaces update() has gone through
    failedCmd,   \* the (entry, interface) whose tc commands exited non-zero
    crossed,     \* the poll in progress has seen the clock move on
    mpc,         \* position of main(): loop / in_run / break / done / crashed
    testIdx,     \* main(): k of `for k, v in enumerate(data)'
    chosen,      \* main(): chosen_tests
    count,       \* main(): count
    ran,         \* the test cases whose run() was called, in order
    results,     \* what each of these calls gave: True / False / raise
    summary      \* the count printed by the final summary line (-1: not printed)

vars == << pc, now, start, endTime, ok, net, cleaned, popensBound, popens,
           proc, termSent, killed, tdIdx, tcIdx, cancelIdx, timers, tcap,
           log, failedAt, escaped, loopExit, stopping, trace, shaped, prog,
           failedCmd, crossed, mpc, testIdx, chosen, count, ran, results,
           summary >>

mainVars  == << pc, start, endTime, ok, net, cleaned, popensBound, popens,
                tdIdx, tcIdx, cancelIdx, failedAt, escaped, loopExit,
                stopping, trace >>
procVars  == << proc, termSent, killed >>
timerVars == << timers, tcap, log >>
tcVars    == << shaped, prog, failedCmd >>
batchVars == << mpc, testIdx, chosen, count, ran, results, summary >>

\* update_link(i1, i2, ...): i1 = s1.intf('ls1-eth2'), i2 = s2.intf('rs1-eth2')
Ifaces == << "ls1-eth2", "rs1-eth2" >>

Terminal == pc \in {"returned", "raised"}

\* ------------------------------------------------------------- helpers

\* Timer(c['start_time'], ...).start() at clock reading `start'
Due(i) == start + tc_config[i].start_time

\* no timer thread is overdue: the clock may move on
CanAdvance == \A i \in Entries : timers[i] = "pending" => Due(i) > now

\* clock increments a blocking call of at most d seconds may produce
Elapsed(d) ==
    { k * Granularity : k \in
        { j \in 0..((d + Granularity - 1) \div Granularity) :
            j = 0 \/ CanAdvance } }

\* number of timers appended to self.timers
NumTimers == tcIdx - 1

RemoveAt(s, k) == SubSeq(s, 1, k - 1) \o SubSeq(s, k + 1, Len(s))

InSeq(s) == { s[k] : k \in 1..Len(s) }

\* update(): '{}, {}\n'.format(t, bw * 1_000_000), bw = ratio * reference
Record(i) ==
    [entry |-> i,
     t     |-> tcap[i],
     bw    |-> tc_config[i].ratio10 * reference10 * 10000]

\* the append placed inside `for i in [i1, i2]': one record per interface
AppendRecordPerInterface(f, r) == Append(Append(f, r), r)

\* with open(log, 'a') as f: f.write(...)
AppendRecord(f, r) == Append(f, r)

\* start_traffic_control: is_first is True for the first entry of the loop
\* only; update(): 'add' if is_first else 'change'
Mode(i) == IF i = 1 THEN "add" ELSE "change"

\* lines 62-77: the tbf and netem commands of entry i on one interface
Command(i) == [entry |-> i, mode |-> Mode(i)]

\* for i in [i1, i2]: both interfaces, in order
ShapeAll(sh, i) == [f \in InSeq(Ifaces) |-> Append(sh[f], Command(i))]

\* Timer.cancel(): only a timer that has not fired yet is stopped
\* a cancel() that would also stop a callback that has started
CancelRunning(st) == IF st \in {"pending", "running"} THEN "cancelled" ELSE st

\* Timer.cancel(): sets the `finished' event, which the timer thread tests
\* only before it calls the function; no effect once the callback started
Cancel(st) == IF st = "pending" THEN "cancelled" ELSE st

\* ---------------------------------------------------------------- init

Init ==
    /\ pc = "net"
    /\ now = 0
    /\ start = 0
    /\ endTime = 0
    /\ ok = "unset"
    /\ net = "none"
    /\ cleaned = FALSE
    /\ popensBound = FALSE
    /\ popens = << >>
    /\ proc = [h \in Hosts |-> "none"]
    /\ termSent = [h \in Hosts |-> FALSE]
    /\ killed = [h \in Hosts |-> FALSE]
    /\ tdIdx = 1
    /\ tcIdx = 1
    /\ cancelIdx = 1
    /\ timers = [i \in Entries |-> "unarmed"]
    /\ tcap = [i \in Entries |-> 0]
    /\ log = << >>
    /\ failedAt = "none"
    /\ escaped = "none"
    /\ loopExit = "none"
    /\ stopping = FALSE
    /\ trace = << >>
    /\ shaped = [f \in InSeq(Ifaces) |-> << >>]
    /\ prog = [i \in Entries |-> 0]
    /\ failedCmd = {}
    /\ crossed = FALSE
    /\ mpc = "in_run"
    /\ testIdx = 0
    /\ chosen = {0}
    /\ count = 0
    /\ ran = << 0 >>
    /\ results = << >>
    /\ summary = -1

\* an exception raised outside the try block leaves run()
Propagate(what) ==
    /\ pc' = "raised"
    /\ escaped' = what
    /\ failedAt' = IF failedAt = "none" THEN what ELSE failedAt

\* an exception raised inside the try block reaches the except clause
Caught(what) ==
    /\ pc' = "except"
    /\ failedAt' = what
    /\ UNCHANGED escaped

\* ------------------------------------------------- run(): provisioning

\* line 144: net = self.net()
NetCreate ==
    /\ pc = "net"
    /\ \E r \in Outcome :
         IF r = "ok"
         THEN /\ net' = "created"
              /\ pc' = "net_start"
              /\ UNCHANGED << failedAt, escaped >>
         ELSE /\ Propagate("net")
              /\ UNCHANGED net
    /\ UNCHANGED << now, start, endTime, ok, cleaned, popensBound, popens,
                    tdIdx, tcIdx, cancelIdx, loopExit, stopping, trace >>
    /\ UNCHANGED << procVars, timerVars >>
    /\ UNCHANGED << tcVars, crossed, batchVars >>

\* line 145: net.start()
NetStart ==
    /\ pc = "net_start"
    /\ \E r \in Outcome :
         IF r = "ok"
         THEN /\ net' = "started"
              /\ pc' = "get_nodes"
              /\ UNCHANGED << failedAt, escaped >>
         ELSE /\ Propagate("net_start")
              /\ UNCHANGED net
    /\ UNCHANGED << now, start, endTime, ok, cleaned, popensBound, popens,
                    tdIdx, tcIdx, cancelIdx, loopExit, stopping, trace >>
    /\ UNCHANGED << procVars, timerVars >>
    /\ UNCHANGED << tcVars, crossed, batchVars >>

\* lines 146-148: getNodeByName, dumpNodeConnections
GetNodes ==
    /\ pc = "get_nodes"
    /\ \E r \in Outcome :
         IF r = "ok"
         THEN /\ pc' = "mkdir"
              /\ UNCHANGED << failedAt, escaped >>
         ELSE Propagate("get_nodes")
    /\ UNCHANGED << now, start, endTime, ok, net, cleaned, popensBound,
                    popens, tdIdx, tcIdx, cancelIdx, loopExit, stopping,
                    trace >>
    /\ UNCHANGED << procVars, timerVars >>
    /\ UNCHANGED << tcVars, crossed, batchVars >>

\* ----------------------------------------------------- run(): try block

\* lines 151-156: Path(out_dir).mkdir(...); start = time(); endTime
Mkdir ==
    /\ pc = "mkdir"
    /\ \E r \in Outcome :
         IF r = "ok"
         THEN /\ start' = now
              /\ endTime' = now + seconds
              /\ pc' = "dump_config"
              /\ UNCHANGED << failedAt, escaped >>
         ELSE /\ Caught("mkdir")
              /\ UNCHANGED << start, endTime >>
    /\ UNCHANGED << now, ok, net, cleaned, popensBound, popens, tdIdx,
                    tcIdx, cancelIdx, loopExit, stopping, trace >>
    /\ UNCHANGED << procVars, timerVars >>
    /\ UNCHANGED << tcVars, crossed, batchVars >>

\* line 158: self.dump_config(start)
DumpConfig ==
    /\ pc = "dump_config"
    /\ \E r \in Outcome :
         IF r = "ok"
         THEN /\ pc' = "start_tc"
              /\ UNCHANGED << failedAt, escaped >>
         ELSE Caught("dump_config")
    /\ UNCHANGED << now, start, endTime, ok, net, cleaned, popensBound,
                    popens, tdIdx, tcIdx, cancelIdx, loopExit, stopping,
                    trace >>
    /\ UNCHANGED << procVars, timerVars >>
    /\ UNCHANGED << tcVars, crossed, batchVars >>

\* line 159, lines 116-129: one iteration of `for c in tc_config':
\* build the Timer, append it to self.timers, start it
ArmTimer ==
    /\ pc = "start_tc"
    /\ tcIdx \in Entries
    /\ \E r \in Outcome :
         IF r = "ok"
         THEN /\ timers' = [timers EXCEPT ![tcIdx] = "pending"]
              /\ tcIdx' = tcIdx + 1
              /\ pc' = IF tcIdx = Len(tc_config) THEN "cmds" ELSE "start_tc"
              /\ UNCHANGED << failedAt, escaped >>
         ELSE /\ Caught("start_traffic_control")
              /\ UNCHANGED << timers, tcIdx >>
    /\ UNCHANGED << now, start, endTime, ok, net, cleaned, popensBound,
                    popens, tdIdx, cancelIdx, loopExit, stopping, trace >>
    /\ UNCHANGED << procVars, tcap, log >>
    /\ UNCHANGED << tcVars, crossed, batchVars >>

\* lines 161-167: build the command lines; popens = {}
Cmds ==
    /\ pc = "cmds"
    /\ \E r \in Outcome :
         IF r = "ok"
         THEN /\ popensBound' = TRUE
              /\ popens' = << >>
              /\ pc' = "popen_h1"
              /\ UNCHANGED << failedAt, escaped >>
         ELSE /\ Caught("cmds")
              /\ UNCHANGED << popensBound, popens >>
    /\ UNCHANGED << now, start, endTime, ok, net, cleaned, tdIdx, tcIdx,
                    cancelIdx, loopExit, stopping, trace >>
    /\ UNCHANGED << procVars, timerVars >>
    /\ UNCHANGED << tcVars, crossed, batchVars >>

\* line 168 (h = "h1") and line 169 (h = "h2"): popens[h] = h.popen(...)
Popen(h, at, next) ==
    /\ pc = at
    /\ \E r \in Outcome :
         IF r = "ok"
         THEN /\ proc' = [proc EXCEPT ![h] = "running"]
              /\ popens' = Append(popens, h)
              /\ pc' = next
              /\ UNCHANGED << failedAt, escaped >>
         ELSE /\ Caught(at)
              /\ UNCHANGED << proc, popens >>
    /\ UNCHANGED << now, start, endTime, ok, net, cleaned, popensBound,
                    tdIdx, tcIdx, cancelIdx, loopExit, stopping, trace >>
    /\ UNCHANGED << termSent, killed, timerVars >>
    /\ UNCHANGED << tcVars, crossed, batchVars >>

PopenH1 == Popen("h1", "popen_h1", "popen_h2")

PopenH2 == Popen("h2", "popen_h2", "monitor")

\* lines 172-179 after a yield of pmonitor at clock reading t:
\* `if t >= endTime: break', then `ok = True'
AfterYield(t) ==
    IF t >= endTime
    THEN /\ loopExit' = "deadline"
         /\ ok' = "True"
         /\ pc' = "finally"
    ELSE UNCHANGED << loopExit, ok, pc >>

\* clock increments between the start of a poll and its return: poll lasts
\* at most timeoutms, so the clock moves on at most once while it blocks
PollElapsed == IF crossed THEN {0} ELSE Elapsed(timeoutms \div 1000)

\* line 171: the poll in progress is still blocked (no event, no timeout
\* yet) when the clock reaches the next multiple of Granularity
PollCross ==
    /\ pc = "monitor"
    /\ popens # << >>
    /\ ~crossed
    /\ CanAdvance
    /\ now' = now + Granularity
    /\ crossed' = TRUE
    /\ UNCHANGED << mainVars, procVars, timerVars, tcVars, batchVars >>

\* line 171: poll returned data of a monitored child; pmonitor yields h, line
MonitorLine ==
    /\ pc = "monitor"
    /\ \E h \in InSeq(popens) : proc[h] = "running"
    /\ \E d \in PollElapsed :
         /\ now' = now + d
         /\ AfterYield(now + d)
    /\ UNCHANGED << start, endTime, net, cleaned, popensBound, popens,
                    tdIdx, tcIdx, cancelIdx, failedAt, escaped, stopping,
                    trace >>
    /\ UNCHANGED << procVars, timerVars >>
    /\ crossed' = FALSE
    /\ UNCHANGED << tcVars, batchVars >>

\* line 171: poll timed out (no monitored stream has an event);
\* pmonitor yields None, ''
MonitorTimeout ==
    /\ pc = "monitor"
    /\ popens # << >>
    /\ \A h \in InSeq(popens) : proc[h] = "running"
    /\ \E d \in PollElapsed :
         /\ now' = now + d
         /\ AfterYield(now + d)
    /\ UNCHANGED << start, endTime, net, cleaned, popensBound, popens,
                    tdIdx, tcIdx, cancelIdx, failedAt, escaped, stopping,
                    trace >>
    /\ UNCHANGED << procVars, timerVars >>
    /\ crossed' = FALSE
    /\ UNCHANGED << tcVars, batchVars >>

\* line 171: poll reported POLLHUP on a stream whose write end is closed
\* (the child exited or closed its stdout); pmonitor does `del popens[host]'
\* and yields nothing
MonitorHup ==
    /\ pc = "monitor"
    /\ \E k \in 1..Len(popens) :
         /\ proc[popens[k]] \in {"quiet", "dead"}
         /\ popens' = RemoveAt(popens, k)
    /\ UNCHANGED << pc, now, start, endTime, ok, net, cleaned, popensBound,
                    tdIdx, tcIdx, cancelIdx, failedAt, escaped, loopExit,
                    stopping, trace >>
    /\ UNCHANGED << procVars, timerVars >>
    /\ crossed' = FALSE
    /\ UNCHANGED << tcVars, batchVars >>

\* line 171: `while popens' is false, the generator is exhausted;
\* line 179: ok = True
MonitorExhausted ==
    /\ pc = "monitor"
    /\ popens = << >>
    /\ loopExit' = "exited"
    /\ ok' = "True"
    /\ pc' = "finally"
    /\ UNCHANGED << now, start, endTime, net, cleaned, popensBound, popens,
                    tdIdx, tcIdx, cancelIdx, failedAt, escaped, stopping,
                    trace >>
    /\ UNCHANGED << procVars, timerVars >>
    /\ crossed' = FALSE
    /\ UNCHANGED << tcVars, batchVars >>

\* lines 171-177: KeyboardInterrupt or another exception inside the loop
MonitorRaise ==
    /\ pc = "monitor"
    /\ \E e \in {"KeyboardInterrupt", "Exception"} : Caught(e)
    /\ loopExit' = "exception"
    /\ UNCHANGED << now, start, endTime, ok, net, cleaned, popensBound,
                    popens, tdIdx, tcIdx, cancelIdx, stopping, trace >>
    /\ UNCHANGED << procVars, timerVars >>
    /\ crossed' = FALSE
    /\ UNCHANGED << tcVars, batchVars >>

\* lines 181-186: except (KeyboardInterrupt, Exception): ok = False
Except ==
    /\ pc = "except"
    /\ ok' = "False"
    /\ pc' = "finally"
    /\ UNCHANGED << now, start, endTime, net, cleaned, popensBound, popens,
                    tdIdx, tcIdx, cancelIdx, failedAt, escaped, loopExit,
                    stopping, trace >>
    /\ UNCHANGED << procVars, timerVars >>
    /\ UNCHANGED << tcVars, crossed, batchVars >>

\* -------------------------------------------------- run(): finally block

\* position after the body of `for p in popens.values()' for item tdIdx
NextProc == IF tdIdx < Len(popens) THEN "terminate" ELSE "net_stop"

\* lines 188-189: print('stopping...'); evaluate popens.values().
\* An unbound popens raises UnboundLocalError out of the finally block.
Finally ==
    /\ pc = "finally"
    /\ stopping' = TRUE
    /\ IF popensBound
       THEN /\ trace' = Append(trace, "stop_processes")
            /\ tdIdx' = 1
            /\ pc' = IF popens = << >> THEN "net_stop" ELSE "terminate"
            /\ UNCHANGED << failedAt, escaped >>
       ELSE /\ Propagate("UnboundLocalError")
            /\ UNCHANGED << trace, tdIdx >>
    /\ UNCHANGED << now, start, endTime, ok, net, cleaned, popensBound,
                    popens, tcIdx, cancelIdx, loopExit >>
    /\ UNCHANGED << procVars, timerVars >>
    /\ UNCHANGED << tcVars, crossed, batchVars >>

\* line 190: p.terminate()
Terminate ==
    /\ pc = "terminate"
    /\ \E r \in Outcome :
         IF r = "ok"
         THEN /\ termSent' = [termSent EXCEPT ![popens[tdIdx]] = TRUE]
              /\ pc' = "wait"
              /\ UNCHANGED << failedAt, escaped >>
         ELSE /\ Propagate("terminate")
              /\ UNCHANGED termSent
    /\ UNCHANGED << now, start, endTime, ok, net, cleaned, popensBound,
                    popens, tdIdx, tcIdx, cancelIdx, loopExit, stopping,
                    trace >>
    /\ UNCHANGED << proc, killed, timerVars >>
    /\ UNCHANGED << tcVars, crossed, batchVars >>

\* lines 192-194: p.wait(3) returns, the child is gone
WaitDone ==
    /\ pc = "wait"
    /\ proc[popens[tdIdx]] = "dead"
    /\ \E d \in Elapsed(grace) : now' = now + d
    /\ pc' = NextProc
    /\ tdIdx' = tdIdx + 1
    /\ UNCHANGED << start, endTime, ok, net, cleaned, popensBound, popens,
                    tcIdx, cancelIdx, failedAt, escaped, loopExit, stopping,
                    trace >>
    /\ UNCHANGED << procVars, timerVars >>
    /\ UNCHANGED << tcVars, crossed, batchVars >>

\* lines 193, 195: p.wait(3) raises TimeoutExpired, the child is still alive
WaitTimeout ==
    /\ pc = "wait"
    /\ proc[popens[tdIdx]] # "dead"
    /\ \E d \in Elapsed(grace) : now' = now + d
    /\ pc' = "kill"
    /\ UNCHANGED << start, endTime, ok, net, cleaned, popensBound, popens,
                    tdIdx, tcIdx, cancelIdx, failedAt, escaped, loopExit,
                    stopping, trace >>
    /\ UNCHANGED << procVars, timerVars >>
    /\ UNCHANGED << tcVars, crossed, batchVars >>

\* line 193: p.wait(3) is interrupted (KeyboardInterrupt): not TimeoutExpired
WaitRaise ==
    /\ pc = "wait"
    /\ Propagate("wait")
    /\ UNCHANGED << now, start, endTime, ok, net, cleaned, popensBound,
                    popens, tdIdx, tcIdx, cancelIdx, loopExit, stopping,
                    trace >>
    /\ UNCHANGED << procVars, timerVars >>
    /\ UNCHANGED << tcVars, crossed, batchVars >>

\* lines 196-197: p.kill()
Kill ==
    /\ pc = "kill"
    /\ \E r \in Outcome :
         IF r = "ok"
         THEN /\ proc' = [proc EXCEPT ![popens[tdIdx]] = "dead"]
              /\ killed' = [killed EXCEPT ![popens[tdIdx]] = TRUE]
              /\ pc' = NextProc
              /\ tdIdx' = tdIdx + 1
              /\ UNCHANGED << failedAt, escaped >>
         ELSE /\ Propagate("kill")
              /\ UNCHANGED << proc, killed, tdIdx >>
    /\ UNCHANGED << now, start, endTime, ok, net, cleaned, popensBound,
                    popens, tcIdx, cancelIdx, loopExit, stopping >>
    /\ UNCHANGED << trace, termSent, timerVars >>
    /\ UNCHANGED << tcVars, crossed, batchVars >>

\* line 198: net.stop().  Mininet stops its hosts' shells, switches and
\* links; the children were started detached (mnexec -d) and are not
\* signalled by it.
NetStop ==
    /\ pc = "net_stop"
    /\ trace' = Append(trace, "net.stop")
    /\ \E r \in Outcome :
         IF r = "ok"
         THEN /\ net' = "stopped"
              /\ pc' = "stop_tc"
              /\ UNCHANGED << failedAt, escaped >>
         ELSE /\ Propagate("net.stop")
              /\ UNCHANGED net
    /\ UNCHANGED << now, start, endTime, ok, cleaned, popensBound, popens,
                    tdIdx, tcIdx, cancelIdx, loopExit, stopping >>
    /\ UNCHANGED << procVars, timerVars >>
    /\ UNCHANGED << tcVars, crossed, batchVars >>

\* line 199: self.stop_traffic_control() is entered
StopTrafficControl ==
    /\ pc = "stop_tc"
    /\ trace' = Append(trace, "stop_traffic_control")
    /\ cancelIdx' = 1
    /\ pc' = "cancel"
    /\ UNCHANGED << now, start, endTime, ok, net, cleaned, popensBound,
                    popens, tdIdx, tcIdx, failedAt, escaped, loopExit,
                    stopping >>
    /\ UNCHANGED << procVars, timerVars >>
    /\ UNCHANGED << tcVars, crossed, batchVars >>

\* lines 132-133: one iteration of `for timer in self.timers: timer.cancel()'
CancelTimer ==
    /\ pc = "cancel"
    /\ cancelIdx <= NumTimers
    /\ timers' = [timers EXCEPT ![cancelIdx] = Cancel(timers[cancelIdx])]
    /\ cancelIdx' = cancelIdx + 1
    /\ UNCHANGED << pc, now, start, endTime, ok, net, cleaned, popensBound,
                    popens, tdIdx, tcIdx, failedAt, escaped, loopExit,
                    stopping, trace >>
    /\ UNCHANGED << procVars, tcap, log >>
    /\ UNCHANGED << tcVars, crossed, batchVars >>

\* lines 200-201: cleanup(); return ok
Cleanup ==
    /\ pc = "cancel"
    /\ cancelIdx > NumTimers
    /\ trace' = Append(trace, "cleanup")
    /\ \E r \in Outcome :
         IF r = "ok"
         THEN /\ cleaned' = TRUE
              /\ pc' = "returned"
              /\ UNCHANGED << failedAt, escaped >>
         ELSE /\ Propagate("cleanup")
              /\ UNCHANGED cleaned
    /\ UNCHANGED << now, start, endTime, ok, net, popensBound, popens,
                    tdIdx, tcIdx, cancelIdx, loopExit, stopping >>
    /\ UNCHANGED << procVars, timerVars >>
    /\ UNCHANGED << tcVars, crossed, batchVars >>

\* ------------------------------------------------------- timer threads

\* threading.Timer: the interval has elapsed and the timer was not
\* cancelled; update() starts.  lines 59-60: t = int(time() * 1000)
UpdateBegin(i) ==
    /\ timers[i] = "pending"
    /\ now >= Due(i)
    /\ timers' = [timers EXCEPT ![i] = "running"]
    /\ tcap' = [tcap EXCEPT ![i] = now * 1000]
    /\ UNCHANGED << now, log, mainVars, procVars >>
    /\ UNCHANGED << tcVars, crossed, batchVars >>

\* lines 61-79: the tc commands for i1 and i2, then the append to the log
UpdateEnd(i) ==
    /\ timers[i] = "running"
    /\ prog[i] = 0
    /\ shaped' = ShapeAll(shaped, i)
    /\ prog' = [prog EXCEPT ![i] = Len(Ifaces)]
    /\ log' = AppendRecord(log, Record(i))
    /\ timers' = [timers EXCEPT ![i] = "done"]
    /\ UNCHANGED << now, tcap, failedCmd, crossed, mainVars, procVars,
                    batchVars >>

TimerFire == \E i \in Entries : UpdateBegin(i)

TimerFinish == \E i \in Entries : UpdateEnd(i)

\* run() is over and a timer that was never cancelled is still waiting:
\* the clock reaches its due time
ClockAfterRun ==
    /\ Terminal
    /\ \E i \in Entries : timers[i] = "pending"
    /\ CanAdvance
    /\ now' = now + Granularity
    /\ UNCHANGED << mainVars, procVars, timerVars >>
    /\ UNCHANGED << tcVars, crossed, batchVars >>

\* ----------------------------------------------------- child processes

\* a child exits by itself (end of its work, crash, or as its reaction to
\* SIGTERM); its end of the stdout pipe is closed
ChildExit ==
    /\ ~Terminal
    /\ \E h \in Hosts :
         /\ proc[h] \in {"running", "quiet"}
         /\ proc' = [proc EXCEPT ![h] = "dead"]
    /\ UNCHANGED << now, termSent, killed, mainVars, timerVars >>
    /\ UNCHANGED << tcVars, crossed, batchVars >>

\* a child closes its stdout and keeps running
ChildCloseStdout ==
    /\ ~Terminal
    /\ \E h \in Hosts :
         /\ proc[h] = "running"
         /\ proc' = [proc EXCEPT ![h] = "quiet"]
    /\ UNCHANGED << now, termSent, killed, mainVars, timerVars >>
    /\ UNCHANGED << tcVars, crossed, batchVars >>

\* ------------------------------------------------------- specification

Next ==
    \/ NetCreate \/ NetStart \/ GetNodes
    \/ Mkdir \/ DumpConfig \/ ArmTimer \/ Cmds \/ PopenH1 \/ PopenH2
    \/ MonitorLine \/ MonitorTimeout \/ MonitorHup \/ MonitorExhausted
    \/ PollCross \/ MonitorRaise \/ Except
    \/ Finally \/ Terminate \/ WaitDone \/ WaitTimeout \/ WaitRaise \/ Kill
    \/ NetStop \/ StopTrafficControl \/ CancelTimer \/ Cleanup
    \/ TimerFire \/ TimerFinish \/ ClockAfterRun
    \/ ChildExit \/ ChildCloseStdout

Spec == Init /\ [][Next]_vars

\* ------------------------------- timer threads, one interface at a time

\* a callback is inside update()
Busy == \E j \in Entries : timers[j] = "running"

\* update() starts, as UpdateBegin.  The offsets of tc_config lie
\* Granularity seconds apart and a callback issues four tc commands, so
\* here a callback has returned before the next offset is reached; Spec
\* covers the callbacks that overlap.
UpdateStart(i) ==
    /\ ~Busy
    /\ UpdateBegin(i)

\* exit statuses subprocess.run may find: 0, or non-zero (the command
\* failed); lines 76-77 do not look at it and do not pass check=True
ExitStatus == IF Cardinality(failedCmd) < MaxFailures THEN {0, 1} ELSE {0}

\* an update() that would end at the first failing command, as it would
\* with subprocess.run(..., check=True)
UpdateShapeChecked(i) ==
    /\ timers[i] = "running"
    /\ prog[i] < Len(Ifaces)
    /\ \E st \in ExitStatus :
         /\ failedCmd' = IF st = 0 THEN failedCmd
                         ELSE failedCmd \cup { << i, Ifaces[prog[i] + 1] >> }
         /\ prog' = IF st = 0 THEN [prog EXCEPT ![i] = @ + 1] ELSE prog
         /\ timers' = IF st = 0 THEN timers
                      ELSE [timers EXCEPT ![i] = "done"]
    /\ shaped' = [shaped EXCEPT ![Ifaces[prog[i] + 1]] = Append(@, Command(i))]
    /\ UNCHANGED << now, tcap, log, crossed, mainVars, procVars, batchVars >>

\* lines 61-77: one iteration of `for i in [i1, i2]': the tbf and netem
\* commands on the next interface, whatever their exit status
UpdateShape(i) ==
    /\ timers[i] = "running"
    /\ prog[i] < Len(Ifaces)
    /\ \E st \in ExitStatus :
         failedCmd' = IF st = 0 THEN failedCmd
                      ELSE failedCmd \cup { << i, Ifaces[prog[i] + 1] >> }
    /\ shaped' = [shaped EXCEPT ![Ifaces[prog[i] + 1]] = Append(@, Command(i))]
    /\ prog' = [prog EXCEPT ![i] = @ + 1]
    /\ UNCHANGED << now, crossed, mainVars, procVars, timerVars, batchVars >>

\* lines 78-79: after the loop, the append to capacity.log; update() returns
UpdateAppend(i) ==
    /\ timers[i] = "running"
    /\ prog[i] = Len(Ifaces)
    /\ log' = AppendRecord(log, Record(i))
    /\ timers' = [timers EXCEPT ![i] = "done"]
    /\ UNCHANGED << now, tcap, crossed, mainVars, procVars, tcVars,
                    batchVars >>

TimerStart == \E i \in Entries : UpdateStart(i)

TimerShape == \E i \in Entries : UpdateShape(i)

TimerAppend == \E i \in Entries : UpdateAppend(i)

NextTC ==
    \/ NetCreate \/ NetStart \/ GetNodes
    \/ Mkdir \/ DumpConfig \/ ArmTimer \/ Cmds \/ PopenH1 \/ PopenH2
    \/ MonitorLine \/ MonitorTimeout \/ MonitorHup \/ MonitorExhausted
    \/ PollCross \/ MonitorRaise \/ Except
    \/ Finally \/ Terminate \/ WaitDone \/ WaitTimeout \/ WaitRaise \/ Kill
    \/ NetStop \/ StopTrafficControl \/ CancelTimer \/ Cleanup
    \/ TimerStart \/ TimerShape \/ TimerAppend \/ ClockAfterRun
    \/ ChildExit \/ ChildCloseStdout

SpecTC == Init /\ [][NextTC]_vars

\* ------------------------------------- a run into an existing out_dir

\* the record an earlier run, started seconds + Granularity before this
\* one, appended for schedule entry i
OldRecord(i) ==
    [entry |-> i,
     t     |-> (tc_config[i].start_time - seconds - Granularity) * 1000,
     bw    |-> tc_config[i].ratio10 * reference10 * 10000]

\* capacity.log as an earlier run into the same directory left it: the
\* earlier run was stopped after its first record, or ran to its end
OldLogs == { [k \in 1..n |-> OldRecord(k)] : n \in {1, Len(tc_config)} }

\* the state before run(), out_dir holding the files of an earlier run
InitRerun ==
    /\ pc = "net"
    /\ now = 0
    /\ start = 0
    /\ endTime = 0
    /\ ok = "unset"
    /\ net = "none"
    /\ cleaned = FALSE
    /\ popensBound = FALSE
    /\ popens = << >>
    /\ proc = [h \in Hosts |-> "none"]
    /\ termSent = [h \in Hosts |-> FALSE]
    /\ killed = [h \in Hosts |-> FALSE]
    /\ tdIdx = 1
    /\ tcIdx = 1
    /\ cancelIdx = 1
    /\ timers = [i \in Entries |-> "unarmed"]
    /\ tcap = [i \in Entries |-> 0]
    /\ log \in OldLogs
    /\ failedAt = "none"
    /\ escaped = "none"
    /\ loopExit = "none"
    /\ stopping = FALSE
    /\ trace = << >>
    /\ shaped = [f \in InSeq(Ifaces) |-> << >>]
    /\ prog = [i \in Entries |-> 0]
    /\ failedCmd = {}
    /\ crossed = FALSE
    /\ mpc = "in_run"
    /\ testIdx = 0
    /\ chosen = {0}
    /\ count = 0
    /\ ran = << 0 >>
    /\ results = << >>
    /\ summary = -1

SpecRerun == InitRerun /\ [][Next]_vars

\* ------------------------------------------------------------- main()

runVars == << pc, now, start, endTime, ok, net, cleaned, popensBound,
              popens, proc, termSent, killed, tdIdx, tcIdx, cancelIdx,
              timers, tcap, log, failedAt, escaped, loopExit, stopping,
              trace, shaped, prog, failedCmd, crossed >>

\* main.py lines 21, 37: args.tests is every test case (the default) or,
\* with -t, for instance only the last one
ChosenSets == { 0..(NumTests - 1), {NumTests - 1} }

\* main.py lines 37-41: chosen_tests from the command line, count = 0
InitBatch ==
    /\ pc = "idle"
    /\ now = 0
    /\ start = 0
    /\ endTime = 0
    /\ ok = "unset"
    /\ net = "none"
    /\ cleaned = FALSE
    /\ popensBound = FALSE
    /\ popens = << >>
    /\ proc = [h \in Hosts |-> "none"]
    /\ termSent = [h \in Hosts |-> FALSE]
    /\ killed = [h \in Hosts |-> FALSE]
    /\ tdIdx = 1
    /\ tcIdx = 1
    /\ cancelIdx = 1
    /\ timers = [i \in Entries |-> "unarmed"]
    /\ tcap = [i \in Entries |-> 0]
    /\ log = << >>
    /\ failedAt = "none"
    /\ escaped = "none"
    /\ loopExit = "none"
    /\ stopping = FALSE
    /\ trace = << >>
    /\ shaped = [f \in InSeq(Ifaces) |-> << >>]
    /\ prog = [i \in Entries |-> 0]
    /\ failedCmd = {}
    /\ crossed = FALSE
    /\ mpc = "loop"
    /\ testIdx = 0
    /\ chosen \in ChosenSets
    /\ count = 0
    /\ ran = << >>
    /\ results = << >>
    /\ summary = -1

\* main.py lines 42-44: `if int(k) not in chosen_tests: continue'
MainSkip ==
    /\ mpc = "loop"
    /\ testIdx < NumTests
    /\ testIdx \notin chosen
    /\ testIdx' = testIdx + 1
    /\ UNCHANGED << mpc, chosen, count, ran, results, summary, runVars >>

\* main.py lines 46-55: a new Implementation and a new
\* VariableAvailableCapacitySingleFlow (own out_dir, timers = []), then
\* tc.run() is entered.  The clock is counted from this run's start; what
\* belongs to the previous object is not followed further.
MainStartRun ==
    /\ mpc = "loop"
    /\ testIdx < NumTests
    /\ testIdx \in chosen
    /\ mpc' = "in_run"
    /\ ran' = Append(ran, testIdx)
    /\ pc' = "net"
    /\ now' = 0
    /\ start' = 0
    /\ endTime' = 0
    /\ ok' = "unset"
    /\ net' = "none"
    /\ cleaned' = FALSE
    /\ popensBound' = FALSE
    /\ popens' = << >>
    /\ proc' = [h \in Hosts |-> "none"]
    /\ termSent' = [h \in Hosts |-> FALSE]
    /\ killed' = [h \in Hosts |-> FALSE]
    /\ tdIdx' = 1
    /\ tcIdx' = 1
    /\ cancelIdx' = 1
    /\ timers' = [i \in Entries |-> "unarmed"]
    /\ tcap' = [i \in Entries |-> 0]
    /\ log' = << >>
    /\ failedAt' = "none"
    /\ escaped' = "none"
    /\ loopExit' = "none"
    /\ stopping' = FALSE
    /\ trace' = << >>
    /\ shaped' = [f \in InSeq(Ifaces) |-> << >>]
    /\ prog' = [i \in Entries |-> 0]
    /\ failedCmd' = {}
    /\ crossed' = FALSE
    /\ UNCHANGED << testIdx, chosen, count, summary, results >>

\* main.py lines 55-60: ok = tc.run() returned; `if not ok: ... break',
\* else count += 1 and the loop goes on
MainRunReturned ==
    /\ mpc = "in_run"
    /\ pc = "returned"
    /\ results' = Append(results, ok)
    /\ IF ok = "True"
       THEN /\ count' = count + 1
            /\ testIdx' = testIdx + 1
            /\ mpc' = "loop"
       ELSE /\ mpc' = "break"
            /\ UNCHANGED << count, testIdx >>
    /\ UNCHANGED << chosen, ran, summary, runVars >>

\* main.py line 55: tc.run() raised; nothing in main() catches it
MainRunRaised ==
    /\ mpc = "in_run"
    /\ pc = "raised"
    /\ results' = Append(results, "raise")
    /\ mpc' = "crashed"
    /\ UNCHANGED << testIdx, chosen, count, ran, summary, runVars >>

\* main.py lines 62-63: after the loop (exhausted or left by break),
\* print('finished {} out of {} test runs')
MainSummary ==
    /\ \/ mpc = "loop" /\ testIdx = NumTests
       \/ mpc = "break"
    /\ summary' = count
    /\ mpc' = "done"
    /\ UNCHANGED << testIdx, chosen, count, ran, results, runVars >>

NextBatch ==
    \/ Next
    \/ MainSkip \/ MainStartRun \/ MainRunReturned \/ MainRunRaised
    \/ MainSummary

SpecBatch == InitBatch /\ [][NextBatch]_vars


TypeOK ==
    /\ now \in Nat
    /\ ok \in {"unset", "True", "False"}
    /\ net \in {"none", "created", "started", "stopped"}
    /\ \A h \in Hosts : proc[h] \in {"none", "running", "quiet", "dead"}
    /\ \A i \in Entries :
         timers[i] \in {"unarmed", "pending", "running", "done", "cancelled"}
    /\ Len(log) <= Len(tc_config)

\* --------------------------------------------------------------- claims

\* the children run() launched that are still alive
AliveChildren == { h \in Hosts : proc[h] \in {"running", "quiet"} }

\* the run got as far as the pmonitor loop and has left it
LeftRunning == loopExit # "none"

\* number of records of capacity.log written for schedule entry i
Count(i) == Cardinality({ k \in 1..Len(log) : log[k].entry = i })

FullTeardown == << "stop_processes", "net.stop", "stop_traffic_control",
                   "cleanup" >>

\* C1 (teardown totality): when run() returns after having left the
\* monitoring loop on any path, no child it launched is alive and the
\* topology has been stopped.
C1_TeardownTotality ==
    (pc = "returned" /\ LeftRunning) =>
        (AliveChildren = {} /\ net = "stopped")

\* C2 (error containment): no exception ever propagates out of run(); the
\* caller only observes a returned boolean.
C2_ErrorContainment == pc # "raised"

\* C3 (success flag): once run() is over, it has returned True exactly when
\* the monitoring loop ended without an exception (deadline or all children
\* exited), and it has returned False whenever an exception was caught
\* between the creation of the output directory and the end of the loop.
C3_SuccessFlag ==
    Terminal =>
        /\ (loopExit \in {"deadline", "exited"})
             <=> (pc = "returned" /\ ok = "True")
        /\ (failedAt \in {"mkdir", "dump_config", "start_traffic_control",
                          "cmds", "popen_h1", "popen_h2",
                          "KeyboardInterrupt", "Exception"})
             => (pc = "returned" /\ ok = "False")

\* C4 (teardown on pre-Running errors): when mkdir, dump_config or
\* start_traffic_control raised, run() ends by returning False with the
\* topology stopped, no timer left pending and cleanup done.
C4_TeardownBeforeRunning ==
    (Terminal /\ failedAt \in {"mkdir", "dump_config",
                               "start_traffic_control"}) =>
        /\ pc = "returned"
        /\ ok = "False"
        /\ net = "stopped"
        /\ \A i \in Entries : timers[i] # "pending"
        /\ cleaned

\* C5 (provisioning failure): when topology creation or net.start() raised,
\* run() ends by returning False, no child was started, no timer was armed,
\* no capacity record was written, and teardown was attempted.
C5_ProvisioningFailure ==
    (Terminal /\ failedAt \in {"net", "net_start"}) =>
        /\ pc = "returned"
        /\ ok = "False"
        /\ \A h \in Hosts : proc[h] = "none"
        /\ \A i \in Entries : timers[i] = "unarmed"
        /\ log = << >>
        /\ stopping

\* C6 (teardown order): on every path through the finally block the four
\* steps - stop the children, stop the topology, cancel the timers, cleanup -
\* each happen exactly once and in this order.
C6_TeardownOrder ==
    (Terminal /\ stopping) =>
        /\ trace = FullTeardown
        /\ net = "stopped"
        /\ cleaned

\* C7 (teardown step independence): once the finally block iterates over
\* the child table, a failing step does not stop the later ones: terminate
\* is sent to every child of the table, the timers are cancelled, cleanup
\* is attempted, and run() returns.
C7_StepIndependence ==
    (Terminal /\ stopping /\ popensBound) =>
        /\ pc = "returned"
        /\ \A h \in InSeq(popens) : termSent[h]
        /\ \E k \in 1..Len(trace) : trace[k] = "stop_traffic_control"
        /\ \E k \in 1..Len(trace) : trace[k] = "cleanup"

\* C8 (no event after teardown began): no capacity-change callback starts
\* executing once the run has left the monitoring loop and entered the
\* finally block.
C8_NoFireAfterTeardown ==
    [][ \A i \in Entries :
          (timers[i] = "pending" /\ timers'[i] = "running")
              => ~(stopping /\ LeftRunning) ]_vars

\* C9 as stated (capacity-log completeness): when run() returns after the
\* run entered Running, capacity.log holds exactly one record per schedule
\* entry.
C9_LogComplete ==
    (pc = "returned" /\ LeftRunning) =>
        \A i \in Entries : Count(i) = 1

\* C9 amended: at every moment, in particular when run() returns,
\* capacity.log holds at most one record of this run per schedule entry, and
\* it holds one exactly for the entries whose callback ran to completion
\* (none for a timer that was cancelled, never armed or is still in flight).
C9_AtMostOnePerEntry ==
    \A i \in Entries :
        /\ Count(i) <= 1
        /\ (Count(i) = 1) <=> (timers[i] = "done")

\* C9 witness: run() returned after Running with some entries logged and
\* some timers cancelled
C9_Witness ==
    /\ pc = "returned"
    /\ LeftRunning
    /\ \E i \in Entries : timers[i] = "done" /\ Count(i) = 1
    /\ \E i \in Entries : timers[i] = "cancelled" /\ Count(i) = 0

\* C10 (schedule ordering): callbacks start in the order of their offsets
\* and the timestamps of capacity.log are non-decreasing in file order,
\* under every interleaving of the callbacks - stated here already for the
\* runs in which no call made by run() raised.
C10_LogNonDecreasing ==
    (failedAt = "none") =>
        /\ \A i, j \in Entries :
             (i < j /\ timers[j] \in {"running", "done"})
                 => timers[i] # "pending"
        /\ \A k \in 1..(Len(log) - 1) : log[k].t <= log[k + 1].t

\* C11 (first-entry semantics): on each interface of the link the first
\* shaping command executed is an 'add' and every later one is a 'change',
\* whatever the order in which the callbacks run - stated here already for
\* the runs in which no call made by run() raised.
C11_AddThenChange ==
    (failedAt = "none") =>
        \A f \in InSeq(Ifaces) :
            \A k \in 1..Len(shaped[f]) :
                shaped[f][k].mode = (IF k = 1 THEN "add" ELSE "change")

\* C12 (deadline enforcement): the monitoring loop leaves at the first
\* return of poll at or after the deadline, so that no poll is started once
\* the clock has reached start + seconds and the loop is over within one
\* poll interval after the deadline.
C12_DeadlineEnforced ==
    (pc = "monitor" /\ popens # << >> /\ ~crossed) => now < endTime

\* the foreground thread is past `for p in popens.values()' of the finally
\* block
PastProcessStop == stopping /\ pc \in {"net_stop", "stop_tc", "cancel", "returned"}

\* C13 (grace-then-kill): once teardown is past its process-stopping step,
\* every child that is still alive has been sent terminate; kill is only
\* sent after terminate and after the grace wait expired; and a forced kill
\* leaves the flag of a run that reached its deadline at True.
C13_GraceThenKill ==
    /\ PastProcessStop => \A h \in AliveChildren : termSent[h]
    /\ \A h \in Hosts : killed[h] => termSent[h]
    /\ (pc = "returned" /\ loopExit = "deadline") => ok = "True"

\* the batch is over: main() printed its summary or died on an exception
BatchOver == mpc \in {"done", "crashed"}

NumTrue == Cardinality({ j \in 1..Len(results) : results[j] = "True" })

\* C14 (batch driver): the selected test cases are run in the order of the
\* implementations file, one at a time; no test case is started after a run
\* that did not return True; and every batch ends with the summary line,
\* whose count is the number of runs that returned True.
C14_BatchDriver ==
    /\ \A j \in 1..Len(ran) :
         /\ ran[j] \in chosen
         /\ \A i \in 1..(j - 1) : ran[i] < ran[j] /\ results[i] = "True"
    /\ BatchOver => (summary = NumTrue)

\* number of times update() of schedule entry i issued its commands on
\* interface f
Issued(i, f) ==
    Cardinality({ k \in 1..Len(shaped[f]) : shaped[f][k].entry = i })

\* what schedule entry i has done so far is the first n iterations of the
\* loop over the interfaces, once each, and (if rec) its one log record
DoneExactly(i, n, rec) ==
    /\ prog[i] = n
    /\ \A k \in 1..Len(Ifaces) :
         Issued(i, Ifaces[k]) = IF k <= n THEN 1 ELSE 0
    /\ Count(i) = IF rec THEN 1 ELSE 0

\* C15 (cancellation race): whenever stop_traffic_control() runs, a
\* callback that has started is not interrupted and ends having issued the
\* commands for both interfaces once and appended one record; a timer that
\* is cancelled before it fired issues no command and appends no record,
\* and stays cancelled; no callback runs twice or stops half-way.
C15_CancellationRace ==
    /\ [](\A i \in Entries :
            /\ timers[i] \in {"unarmed", "pending", "cancelled"}
                 => DoneExactly(i, 0, FALSE)
            /\ timers[i] = "running"
                 => \E n \in 0..Len(Ifaces) : DoneExactly(i, n, FALSE)
            /\ timers[i] = "done" => DoneExactly(i, Len(Ifaces), TRUE))
    /\ [][\A i \in Entries :
            /\ timers[i] = "running" => timers'[i] \in {"running", "done"}
            /\ timers[i] \in {"cancelled", "done"} => timers'[i] = timers[i]
         ]_vars

\* stop_traffic_control() has passed over a callback that is half-way
\* through its commands, and has cancelled a timer that had not fired
C15_Witness ==
    /\ pc = "cancel"
    /\ \E i \in Entries :
         i < cancelIdx /\ timers[i] = "running" /\ prog[i] = 1
    /\ \E j \in Entries : timers[j] = "cancelled"

Launched == { h \in Hosts : proc[h] # "none" }

\* positions of run() before the first child is launched
BeforeLaunch == {"net", "net_start", "get_nodes", "mkdir", "dump_config",
                 "start_tc", "cmds", "popen_h1"}

\* C17 (resource count): a run has at most two children; a child exists
\* only after config.json was written and every timer armed, and no child
\* is alive once run() has returned; the child on h1 is launched before
\* the child on h2.
C17_ResourceCount ==
    /\ Cardinality(Launched) <= 2
    /\ Launched # {} =>
         /\ pc \notin BeforeLaunch
         /\ tcIdx > Len(tc_config)
    /\ "h2" \in Launched => "h1" \in Launched
    /\ pc = "returned" => AliveChildren = {}

\* C18 (initial capacity before traffic): when a child process has been
\* launched, the callback of the offset-0 schedule entry has finished: the
\* shaping discipline exists on both interfaces.
C18_ShapedBeforeTraffic ==
    Launched # {} =>
        /\ timers[1] = "done"
        /\ \A k \in 1..Len(Ifaces) : Issued(1, Ifaces[k]) = 1

\* C19 (no timer activity past the run): once run() has returned, none of
\* the timers it armed is still waiting to fire and no callback is still
\* inside update().
C19_NoTimerPastRun ==
    pc = "returned" =>
        \A i \in Entries : timers[i] \notin {"pending", "running"}

\* C20 (per-run capacity log): when run() has returned, every record of
\* capacity.log was written by this run, also when out_dir held the files
\* of an earlier run.
C20_LogOfThisRun ==
    pc = "returned" =>
        \A k \in 1..Len(log) : log[k].t >= start * 1000

=============================================================================
